---- MODULE Spec2Model ----
(***************************************************************************)
(* Model of the crawl engine of WebScanPro (src/crawler.py): the URL       *)
(* helpers, the robots gate, the fetcher and the breadth-first loop of     *)
(* Crawler.crawl.                                                          *)
(*                                                                         *)
(* A URL string is modelled by the four components urllib.parse.urlparse   *)
(* splits it into that the code reads: scheme, netloc (host and port),     *)
(* path and fragment.  A raw href has the same shape, with an empty scheme *)
(* and netloc when it is relative.                                         *)
(***************************************************************************)
EXTENDS Integers, Sequences, FiniteSets, TLC

VARIABLES
    start_input,      \* the start_url argument given to Crawler(...)
    max_pages,        \* self.max_pages
    max_depth,        \* self.max_depth
    allowed_external, \* self.allowed_external
    site,             \* the web site crawled: path -> page served
    robots_reply,     \* what the request for robots.txt is answered with
    start_url,        \* self.start_url
    rp,               \* self.robots.rp
    visited,          \* self.visited
    results,          \* self.results
    q,                \* the deque q of crawl()
    cur,              \* the locals url, depth, status, html_or_err, headers
    pc,               \* position of the program
    calls,            \* number of calls of crawl() so far
    netlog,           \* history: network requests and sleeps, in order
    enqlog,           \* history: entries appended to q, in order
    deqlog            \* history: entries popped from q, in order

vars == <<start_input, max_pages, max_depth, allowed_external, site, robots_reply,
          start_url, rp, visited, results, q, cur, pc, calls, netlog, enqlog, deqlog>>

config == <<start_input, max_pages, max_depth, allowed_external, site, robots_reply>>

----------------------------------------------------------------------------
(* Bounds of the model *)

MaxPagesBound == 4
MaxDepthBound == 2

----------------------------------------------------------------------------
(* URLs and hrefs *)

URL(s, n, p, f) == [scheme |-> s, netloc |-> n, path |-> p, frag |-> f]

\* paths of the model that begin with "/"
AbsPaths == {"/", "/a", "/b", "/robots.txt"}

\* schemes urllib.parse.urljoin resolves relative references for
uses_relative == {"http", "https", "ftp"}

\* str.rstrip("/") on a URL string: the string ends with the path only when
\* it has no fragment, and "/" is the one path of the model ending in "/"
rstrip_slash(u) ==
    IF u.frag = "" /\ u.path = "/" THEN [u EXCEPT !.path = ""] ELSE u

\* link.split("#")[0]
drop_fragment(link) == [link EXCEPT !.frag = ""]

\* the empty string
IsEmptyString(l) == l.scheme = "" /\ l.netloc = "" /\ l.path = "" /\ l.frag = ""

\* urllib.parse.urljoin(base, url); every base path of the model has the
\* directory "/", so a relative path is resolved by prefixing "/"
urljoin(base, url) ==
    IF IsEmptyString(url) THEN base
    ELSE LET scheme == IF url.scheme = "" THEN base.scheme ELSE url.scheme IN
         IF scheme # base.scheme \/ scheme \notin uses_relative THEN url
         ELSE IF url.netloc # "" THEN URL(scheme, url.netloc, url.path, url.frag)
         ELSE IF url.path = "" THEN URL(scheme, base.netloc, base.path, url.frag)
         ELSE IF url.path \in AbsPaths
              THEN URL(scheme, base.netloc, url.path, url.frag)
              ELSE URL(scheme, base.netloc, "/" \o url.path, url.frag)

\* urljoin raising ValueError: the reference has the invalid IPv6 literal "[x"
\* for its netloc
urljoin_raises(base, url) == url.netloc = "[x"

normalize_url(base, link) == urljoin(base, drop_fragment(link))

normalize_url_raises(base, link) == urljoin_raises(base, drop_fragment(link))

\* the comparison with the base on both sides
same_domain_self(base, other) == base.netloc = base.netloc

same_domain(base, other) == base.netloc = other.netloc

\* n.startswith("mailto:") or n.startswith("javascript:")
IsMailtoOrJavascript(n) == n.scheme \in {"mailto", "javascript"}

\* scheme + host + port, as the glossary of the specification defines it
Origin(u) == <<u.scheme, u.netloc>>

----------------------------------------------------------------------------
(* The web site: what a GET of a URL can return *)

Href(s, n, p, f) == URL(s, n, p, f)

H_root     == Href("", "", "/", "")                  \* href="/"
H_a        == Href("", "", "/a", "")                 \* href="/a"
H_b        == Href("", "", "/b", "")                 \* href="/b"
H_rel_a    == Href("", "", "a", "")                  \* href="a"
H_b_frag   == Href("", "", "/b", "sec")              \* href="/b#sec"
H_fragonly == Href("", "", "", "sec")                \* href="#sec"
H_other    == Href("https", "other.test", "/", "")   \* href="https://other.test/"
H_https_a  == Href("https", "x.test", "/a", "")      \* href="https://x.test/a"
H_port     == Href("http", "x.test:8080", "/a", "")  \* href="http://x.test:8080/a"
H_ftp      == Href("ftp", "x.test", "/b", "")        \* href="ftp://x.test/b"
H_mailto   == Href("mailto", "", "admin@x.test", "") \* href="mailto:admin@x.test"
H_tel      == Href("tel", "", "123", "")             \* href="tel:123"
H_empty    == Href("", "", "", "")                   \* href="  "
H_other_a  == Href("https", "other.test", "/a", "")  \* href="https://other.test/a"
H_pct      == Href("http", "%5Bx", "/a", "")         \* href="http://%5Bx/a"
H_bracket  == Href("http", "[x", "/a", "")           \* href="http://[x/a"

Form(action, method) == [action |-> action, method |-> method]

PageOf(links, forms) == [links |-> links, forms |-> forms]

EmptyPage == PageOf(<<>>, <<>>)

\* the scenario of the specification: one page linking to /a and https://other.test/
SiteScenario ==
    [p \in AbsPaths |-> IF p = "/" THEN PageOf(<<H_a, H_other>>, <<>>) ELSE EmptyPage]

\* cycles and repeated links
SiteCycle ==
    [p \in AbsPaths |->
        CASE p = "/"  -> PageOf(<<H_a, H_root>>, <<>>)
          [] p = "/a" -> PageOf(<<H_b, H_rel_a, H_root>>, <<Form(H_empty, "")>>)
          [] p = "/b" -> PageOf(<<H_a, H_fragonly>>, <<>>)
          [] OTHER    -> EmptyPage]

\* links that differ from the start URL in scheme or port, and other schemes
SiteSchemes ==
    [p \in AbsPaths |->
        CASE p = "/"  -> PageOf(<<H_pct, H_https_a, H_port, H_ftp, H_mailto>>, <<>>)
          [] p = "/a" -> PageOf(<<H_b_frag, H_tel>>, <<>>)
          [] OTHER    -> EmptyPage]

\* more links on one page than max_pages admits
SiteWide ==
    [p \in AbsPaths |->
        CASE p = "/"  -> PageOf(<<H_empty, H_a, H_b, H_root, H_other>>,
                                <<Form(H_b_frag, "POST")>>)
          [] p = "/a" -> PageOf(<<H_other, H_b>>, <<>>)
          [] p = "/b" -> PageOf(<<H_a, H_other_a>>, <<>>)
          [] OTHER    -> EmptyPage]

\* fragment-only links and a chain / -> /b -> /a; a link and a form action
\* that urljoin rejects
SiteFrag ==
    [p \in AbsPaths |->
        CASE p = "/"  -> PageOf(<<H_fragonly, H_bracket, H_b_frag>>, <<>>)
          [] p = "/b" -> PageOf(<<H_fragonly, H_a>>, <<Form(H_bracket, "")>>)
          [] p = "/a" -> PageOf(<<H_root>>, <<>>)
          [] OTHER    -> EmptyPage]

Sites == {SiteScenario, SiteCycle, SiteSchemes, SiteWide, SiteFrag}

\* the page a server of the site answers a GET of u with
Page(s, u) ==
    LET p == IF u.path = "" THEN "/" ELSE u.path
    IN IF p \in DOMAIN s THEN s[p] ELSE EmptyPage

StartInputs ==
    { URL("http", "x.test", "/", ""),       \* http://x.test/
      URL("http", "x.test", "", ""),        \* http://x.test
      URL("http", "x.test", "/", "top") }   \* http://x.test/#top

----------------------------------------------------------------------------
(* Robots gate *)

None == [kind |-> "None"]

\* a RobotFileParser: disallow_all, allow_all, whether parse() has run
\* (last_checked) and the Disallow rules parsed
RobotFile(disallow_all, allow_all, checked, rules) ==
    [kind |-> "RobotFileParser", disallow_all |-> disallow_all,
     allow_all |-> allow_all, last_checked |-> checked, rules |-> rules]

\* the answers to the request for robots.txt
RaisesReply == [kind |-> "raises"]                 \* no connection, undecodable body

HttpErrorReply(status) == [kind |-> "http_error", status |-> status]

RulesReply(rules) == [kind |-> "ok", rules |-> rules]  \* 200 with Disallow lines

RobotsReplies ==
    {RaisesReply, HttpErrorReply(403), HttpErrorReply(404), HttpErrorReply(503),
     RulesReply({"/a"}), RulesReply({"/b"})}

\* self.rp after RobotsChecker.__init__: rp.read() raising leaves None;
\* read() itself swallows an HTTP error status (401/403 set disallow_all,
\* another 4xx sets allow_all, a 5xx sets nothing) and parses a 200 body
read_robots(reply) ==
    CASE reply.kind = "raises" -> None
      [] reply.kind = "http_error" ->
            RobotFile(reply.status \in {401, 403},
                      reply.status \notin {401, 403} /\ reply.status < 500,
                      FALSE, {})
      [] reply.kind = "ok" -> RobotFile(FALSE, FALSE, TRUE, reply.rules)

\* RobotFileParser.can_fetch when it returns: the path of the URL is matched
\* against the rules, whatever the host of the URL
rp_can_fetch(r, url) ==
    LET p == IF url.path = "" THEN "/" ELSE url.path
    IN IF r.disallow_all THEN FALSE
       ELSE IF r.allow_all THEN TRUE
       ELSE IF ~r.last_checked THEN FALSE
       ELSE \A rule \in r.rules : ~(rule = "/" \/ rule = p)

\* RobotFileParser.can_fetch raising: urlparse(unquote(url)) rejects the
\* netloc "%5Bx", which unquotes to the invalid IPv6 literal "[x"
rp_can_fetch_raises(r, url) ==
    ~r.disallow_all /\ ~r.allow_all /\ r.last_checked /\ url.netloc = "%5Bx"

\* the gate answering without consulting the policy
can_fetch_always(r, url) == TRUE

\* RobotsChecker.can_fetch
can_fetch(r, url) ==
    IF r = None THEN TRUE
    ELSE IF rp_can_fetch_raises(r, url) THEN TRUE
    ELSE rp_can_fetch(r, url)

----------------------------------------------------------------------------
(* Fetcher and page extractor *)

NoHeaders == <<>>

FetchError == [kind |-> "fetch_error", cause |-> "ConnectionError"]

HtmlBody(page) == [kind |-> "html", links |-> page.links, forms |-> page.forms]

\* a response body whose text begins with "__fetch_error__"
MarkerBody == [kind |-> "marker_text"]

Outcome(status, body, headers) ==
    [status |-> status, html_or_err |-> body, headers |-> headers]

\* Crawler.fetch: the except branch returns (0, "__fetch_error__:...", {});
\* requests has no transport for a scheme other than http and https
fetch(url) ==
    {Outcome(0, FetchError, NoHeaders)} \cup
    ( IF url.scheme \in {"http", "https"}
      THEN { Outcome(st, HtmlBody(Page(site, url)), <<"Content-Type">>) : st \in {200, 404} }
           \cup { Outcome(200, MarkerBody, <<"Content-Type">>) }
      ELSE {} )

\* html_or_err.startswith("__fetch_error__")
startswith_fetch_error(body) == body.kind \in {"fetch_error", "marker_text"}

\* extract_links_and_forms: hrefs are stripped and the empty ones left out
extract_links(html) == SelectSeq(html.links, LAMBDA h : ~IsEmptyString(h))

extract_forms(html) ==
    [i \in 1..Len(html.forms) |->
        [action |-> html.forms[i].action,
         method |-> IF html.forms[i].method = "" THEN "get" ELSE "post"]]

----------------------------------------------------------------------------
(* Crawler.crawl *)

Entry(u, d) == [url |-> u, depth |-> d]

\* the loop condition with <= for <
LoopGuardOffByOne == q # <<>> /\ Cardinality(DOMAIN results) <= max_pages

\* the loop condition without the page limit
LoopGuardNoLimit == q # <<>>

\* while q and len(self.results) < self.max_pages
LoopGuard == q # <<>> /\ Cardinality(DOMAIN results) < max_pages

\* q.pop() for q.popleft(): the newest entry first
pop_right(queue) ==
    [entry |-> queue[Len(queue)], rest |-> SubSeq(queue, 1, Len(queue) - 1)]

\* url, depth = q.popleft()
popleft(queue) == [entry |-> Head(queue), rest |-> Tail(queue)]

\* if depth > self.max_depth: continue
TooDeep(depth) == depth > max_depth

\* the enqueue condition without the depth test
EnqueueGuardNoDepth(n, depth, seen, queue) ==
    /\ n \notin seen
    /\ Cardinality(DOMAIN results) + Len(queue) < max_pages

\* the enqueue condition without the visited test
EnqueueGuardNoVisited(n, depth, seen, queue) ==
    /\ depth + 1 <= max_depth
    /\ Cardinality(DOMAIN results) + Len(queue) < max_pages

\* the enqueue condition with depth + 1 < max_depth
EnqueueGuardDepthStrict(n, depth, seen, queue) ==
    /\ n \notin seen
    /\ depth + 1 < max_depth
    /\ Cardinality(DOMAIN results) + Len(queue) < max_pages

\* the enqueue condition with len(self.results) + len(q) <= self.max_pages
EnqueueGuardProjectedOffByOne(n, depth, seen, queue) ==
    /\ n \notin seen
    /\ depth + 1 <= max_depth
    /\ Cardinality(DOMAIN results) + Len(queue) <= max_pages

\* n not in self.visited and depth + 1 <= self.max_depth
\*   and len(self.results) + len(q) < self.max_pages
EnqueueGuard(n, depth, seen, queue) ==
    /\ n \notin seen
    /\ depth + 1 <= max_depth
    /\ Cardinality(DOMAIN results) + Len(queue) < max_pages

\* the scope filter of the link loop: TRUE when the link is dropped
Filtered(n) ==
    \/ IsMailtoOrJavascript(n)
    \/ ~allowed_external /\ ~same_domain(start_url, n)

\* self.visited.add(n); q.append((n, depth + 1))
Enqueue(st, n, depth) ==
    [st EXCEPT !.visited = @ \cup {n},
               !.q = Append(@, Entry(n, depth + 1)),
               !.enqlog = Append(@, Entry(n, depth + 1))]

\* for link in links: ... ; st holds normalized, visited, q (and the history)
RECURSIVE LinkLoop(_, _, _, _)
LinkLoop(links, url, depth, st) ==
    IF links = <<>> THEN st
    ELSE IF normalize_url_raises(url, Head(links))
         THEN LinkLoop(Tail(links), url, depth, st)   \* except Exception: continue
    ELSE LET n   == normalize_url(url, Head(links))
             st1 == [st EXCEPT !.normalized = Append(@, n)]
         IN IF Filtered(n) THEN LinkLoop(Tail(links), url, depth, st)
            ELSE IF EnqueueGuard(n, depth, st.visited, st.q)
                 THEN LinkLoop(Tail(links), url, depth, Enqueue(st1, n, depth))
                 ELSE LinkLoop(Tail(links), url, depth, st1)

\* resolved_action = normalize_url(url, action) if action else url
ResolveForms(url, forms) ==
    [i \in 1..Len(forms) |->
        [action |-> forms[i].action,
         method |-> forms[i].method,
         resolved_action |-> IF IsEmptyString(forms[i].action) THEN url
                             ELSE normalize_url(url, forms[i].action)]]

\* the form loop raising: normalize_url(url, action) is called outside any try
ResolveFormsRaises(url, forms) ==
    \E i \in 1..Len(forms) :
        ~IsEmptyString(forms[i].action) /\ normalize_url_raises(url, forms[i].action)

\* the page_data dict of one iteration
PageData(url, status, headers, depth, forms, out_links) ==
    [url |-> url, status |-> status, headers |-> headers, depth |-> depth,
     forms |-> forms, out_links |-> out_links]

\* the else branch forgetting to store the error text
WithErrorDropped(page_data, err) == page_data

WithError(page_data, err) ==
    [k \in DOMAIN page_data \cup {"error"} |->
        IF k = "error" THEN err ELSE page_data[k]]

SkippedRecord == [skipped |-> "blocked_by_robots"]

\* self.results[url] = rec
Store(res, url, rec) == (url :> rec) @@ res

\* the parse condition without its status test
IsParsedAnyStatus(out) == ~startswith_fetch_error(out.html_or_err)

\* status == 200 and ... and not html_or_err.startswith("__fetch_error__")
IsParsed(out) == out.status = 200 /\ ~startswith_fetch_error(out.html_or_err)

NoLocals == [url |-> None, depth |-> -1, status |-> -1,
             html_or_err |-> None, headers |-> NoHeaders]

Init ==
    /\ start_input \in StartInputs
    /\ max_pages \in 1..MaxPagesBound
    /\ max_depth \in -1..MaxDepthBound
    /\ allowed_external \in BOOLEAN
    /\ site \in Sites
    /\ robots_reply \in RobotsReplies
    /\ start_url = None
    /\ rp = None
    /\ visited = {}
    /\ results = <<>>
    /\ q = <<>>
    /\ cur = NoLocals
    /\ pc = "new"
    /\ calls = 0
    /\ netlog = <<>>
    /\ enqlog = <<>>
    /\ deqlog = <<>>

\* robots_url = f"{parsed.scheme}://{parsed.netloc}/robots.txt"
robots_url(base_url) == URL(base_url.scheme, base_url.netloc, "/robots.txt", "")

\* Crawler.__init__ with RobotsChecker.__init__, which requests robots.txt
CrawlerInit ==
    /\ pc = "new"
    /\ start_url' = rstrip_slash(start_input)
    /\ rp' = read_robots(robots_reply)
    /\ netlog' = Append(netlog, <<"GET", robots_url(start_url')>>)
    /\ visited' = {}
    /\ results' = <<>>
    /\ pc' = "constructed"
    /\ UNCHANGED <<config, calls, q, cur, enqlog, deqlog>>

\* crawl(): q = deque(); q.append((self.start_url, 0)); self.visited.add(...)
CrawlBegin ==
    /\ pc = "constructed"
    /\ q' = <<Entry(start_url, 0)>>
    /\ visited' = visited \cup {start_url}
    /\ enqlog' = Append(enqlog, Entry(start_url, 0))
    /\ pc' = "loop"
    /\ calls' = calls + 1
    /\ UNCHANGED <<config, start_url, rp, results, cur, netlog, deqlog>>

\* an iteration that discards an entry deeper than max_depth
Discard ==
    /\ pc = "loop" /\ LoopGuard
    /\ LET e == popleft(q).entry IN
         /\ TooDeep(e.depth)
         /\ q' = popleft(q).rest
         /\ cur' = [cur EXCEPT !.url = e.url, !.depth = e.depth]
         /\ deqlog' = Append(deqlog, e)
    /\ UNCHANGED <<config, calls, start_url, rp, visited, results, pc, netlog, enqlog>>

\* an iteration the robots gate denies
RobotsSkip ==
    /\ pc = "loop" /\ LoopGuard
    /\ LET e == popleft(q).entry IN
         /\ ~TooDeep(e.depth)
         /\ ~can_fetch(rp, e.url)
         /\ q' = popleft(q).rest
         /\ cur' = [cur EXCEPT !.url = e.url, !.depth = e.depth]
         /\ deqlog' = Append(deqlog, e)
         /\ results' = Store(results, e.url, SkippedRecord)
    /\ UNCHANGED <<config, calls, start_url, rp, visited, pc, netlog, enqlog>>

\* an iteration that fetches: the else branch stores the error text
FetchFailedOrUnparsed ==
    /\ pc = "loop" /\ LoopGuard
    /\ LET e == popleft(q).entry IN
         /\ ~TooDeep(e.depth)
         /\ can_fetch(rp, e.url)
         /\ \E out \in fetch(e.url) :
              /\ ~IsParsed(out)
              /\ cur' = [url |-> e.url, depth |-> e.depth, status |-> out.status,
                         html_or_err |-> out.html_or_err, headers |-> out.headers]
              /\ results' = Store(results, e.url,
                    WithError(PageData(e.url, out.status, out.headers, e.depth,
                                       <<>>, <<>>), out.html_or_err))
         /\ q' = popleft(q).rest
         /\ deqlog' = Append(deqlog, e)
         /\ netlog' = Append(netlog, <<"GET", e.url>>)
    /\ pc' = "sleep"
    /\ UNCHANGED <<config, calls, start_url, rp, visited, enqlog>>

\* an iteration that fetches a status-200 page and walks its links and forms
FetchParsed ==
    /\ pc = "loop" /\ LoopGuard
    /\ LET e == popleft(q).entry IN
         /\ ~TooDeep(e.depth)
         /\ can_fetch(rp, e.url)
         /\ \E out \in fetch(e.url) :
              /\ IsParsed(out)
              /\ ~ResolveFormsRaises(e.url, extract_forms(out.html_or_err))
              /\ LET st == LinkLoop(extract_links(out.html_or_err), e.url, e.depth,
                                    [normalized |-> <<>>, visited |-> visited,
                                     q |-> popleft(q).rest, enqlog |-> enqlog])
                 IN /\ visited' = st.visited
                    /\ q' = st.q
                    /\ enqlog' = st.enqlog
                    /\ results' = Store(results, e.url,
                          PageData(e.url, out.status, out.headers, e.depth,
                                   ResolveForms(e.url, extract_forms(out.html_or_err)),
                                   st.normalized))
              /\ cur' = [url |-> e.url, depth |-> e.depth, status |-> out.status,
                         html_or_err |-> out.html_or_err, headers |-> out.headers]
         /\ deqlog' = Append(deqlog, e)
         /\ netlog' = Append(netlog, <<"GET", e.url>>)
    /\ pc' = "sleep"
    /\ UNCHANGED <<config, calls, start_url, rp>>

\* an iteration that fetches a status-200 page with a form whose action
\* urljoin rejects: the links have been walked, the exception leaves crawl()
\* before the record is stored
FormResolutionRaises ==
    /\ pc = "loop" /\ LoopGuard
    /\ LET e == popleft(q).entry IN
         /\ ~TooDeep(e.depth)
         /\ can_fetch(rp, e.url)
         /\ \E out \in fetch(e.url) :
              /\ IsParsed(out)
              /\ ResolveFormsRaises(e.url, extract_forms(out.html_or_err))
              /\ LET st == LinkLoop(extract_links(out.html_or_err), e.url, e.depth,
                                    [normalized |-> <<>>, visited |-> visited,
                                     q |-> popleft(q).rest, enqlog |-> enqlog])
                 IN /\ visited' = st.visited
                    /\ q' = st.q
                    /\ enqlog' = st.enqlog
              /\ cur' = [url |-> e.url, depth |-> e.depth, status |-> out.status,
                         html_or_err |-> out.html_or_err, headers |-> out.headers]
         /\ deqlog' = Append(deqlog, e)
         /\ netlog' = Append(netlog, <<"GET", e.url>>)
    /\ pc' = "raised"
    /\ UNCHANGED <<config, calls, start_url, rp, results>>

\* time.sleep(self.delay)
Sleep ==
    /\ pc = "sleep"
    /\ netlog' = Append(netlog, <<"sleep">>)
    /\ pc' = "loop"
    /\ UNCHANGED <<config, calls, start_url, rp, visited, results, q, cur, enqlog, deqlog>>

\* the while condition is false: return self.results
Return ==
    /\ pc = "loop" /\ ~LoopGuard
    /\ pc' = "done"
    /\ UNCHANGED <<config, calls, start_url, rp, visited, results, q, cur, netlog,
                   enqlog, deqlog>>

Next ==
    \/ CrawlerInit
    \/ CrawlBegin
    \/ Discard
    \/ RobotsSkip
    \/ FetchFailedOrUnparsed
    \/ FetchParsed
    \/ FormResolutionRaises
    \/ Sleep
    \/ Return

Spec == Init /\ [][Next]_vars

\* the program is sequential and every call returns: it always takes its next step
FairSpec == Spec /\ WF_vars(Next)

\* the number of calls of crawl() made on one Crawler
MaxCalls == 2

\* a later call of crawl() that would start from an empty visited set and store
CrawlAgainReset ==
    /\ pc = "done" /\ calls < MaxCalls
    /\ q' = <<Entry(start_url, 0)>>
    /\ visited' = {start_url}
    /\ results' = <<>>
    /\ enqlog' = Append(enqlog, Entry(start_url, 0))
    /\ cur' = NoLocals
    /\ pc' = "loop"
    /\ calls' = calls + 1
    /\ UNCHANGED <<config, start_url, rp, netlog, deqlog>>

\* a later call of crawl() on the same Crawler: q is a new deque, while
\* self.visited and self.results are the ones __init__ created
CrawlAgain ==
    /\ pc = "done" /\ calls < MaxCalls
    /\ q' = <<Entry(start_url, 0)>>
    /\ visited' = visited \cup {start_url}
    /\ enqlog' = Append(enqlog, Entry(start_url, 0))
    /\ cur' = NoLocals
    /\ pc' = "loop"
    /\ calls' = calls + 1
    /\ UNCHANGED <<config, start_url, rp, results, netlog, deqlog>>

Next2 == Next \/ CrawlAgain

SpecTwice == Init /\ [][Next2]_vars

----------------------------------------------------------------------------
(* Helpers of the properties *)

Range(seq) == {seq[i] : i \in 1..Len(seq)}

Keys == DOMAIN results

Urls(log) == {log[i].url : i \in 1..Len(log)}

NoRepeats(log) ==
    \A i, j \in 1..Len(log) : log[i].url = log[j].url => i = j

\* the page URLs requested so far (the first request is the one for robots.txt)
Fetched == [i \in 1..(Len(netlog) - 1) |-> netlog[i + 1]]

FetchedUrls == SelectSeq(Fetched, LAMBDA r : r[1] = "GET")

IsSkipped(rec) == "skipped" \in DOMAIN rec

IsFailed(rec) == ~IsSkipped(rec) /\ rec.status = 0

----------------------------------------------------------------------------
(* C1: in every reachable state the result store holds at most max_pages
   records, the robots-skipped and the fetch-failed records included. *)
C1_ResultStoreWithinMaxPages == Cardinality(Keys) <= max_pages

\* a run cut short by max_pages whose store holds a skipped and a failed record
C1_Witness ==
    /\ pc = "done"
    /\ q # <<>>
    /\ Cardinality(Keys) = max_pages
    /\ \E k \in Keys : IsSkipped(results[k])
    /\ \E k \in Keys : IsFailed(results[k])

(* C2: with max_depth >= 0 every entry ever placed in the frontier and every
   stored page record has depth <= max_depth, and the dequeue-time depth
   check never discards an entry: every dequeued entry is recorded, the one
   whose iteration raised apart. *)
C2_DepthWithinMaxDepth ==
    max_depth >= 0 =>
        /\ \A i \in 1..Len(enqlog) : enqlog[i].depth <= max_depth
        /\ \A k \in Keys : ~IsSkipped(results[k]) => results[k].depth <= max_depth
        /\ \A i \in 1..Len(deqlog) : ~TooDeep(deqlog[i].depth)
        /\ Keys \subseteq Urls(deqlog)
        /\ Urls(deqlog) \ Keys \subseteq (IF pc = "raised" THEN {cur.url} ELSE {})

\* a page at depth max_depth was parsed and had links, none of which was enqueued
C2_Witness ==
    /\ pc = "done"
    /\ max_depth >= 0
    /\ \E k \in Keys :
          /\ ~IsSkipped(results[k])
          /\ results[k].depth = max_depth
          /\ \E i \in 1..Len(results[k].out_links) :
                results[k].out_links[i] \notin visited

(* C3: within one run each URL is enqueued at most once, hence dequeued and
   fetched at most once; a URL is in the visited set from the moment it is
   enqueued and the visited set only grows. *)
C3_State ==
    /\ NoRepeats(enqlog)
    /\ NoRepeats(deqlog)
    /\ \A i, j \in 1..Len(FetchedUrls) : FetchedUrls[i] = FetchedUrls[j] => i = j
    /\ pc \notin {"new", "constructed"} => visited = Urls(enqlog)
    /\ Urls(q) \subseteq visited

C3_EnqueuedAtMostOnce == []C3_State /\ [][visited \subseteq visited']_vars

\* a page links back to a URL that was enqueued before, and the run goes on
C3_Witness ==
    /\ Len(deqlog) >= 3
    /\ \E k \in Keys :
          /\ ~IsSkipped(results[k])
          /\ \E i \in 1..Len(results[k].out_links) :
                /\ results[k].out_links[i] \in Keys
                /\ results[k].out_links[i] # k

OutLinks == UNION {Range(results[k].out_links) : k \in {x \in Keys : ~IsSkipped(results[x])}}

(* C4 as claimed: when allowed_external is false every URL recorded in a
   page's out_links has the origin (scheme, host and port) of the start URL
   and no fragment. *)
C4_OutLinksSameOriginNoFragment ==
    ~allowed_external =>
        \A n \in OutLinks : Origin(n) = Origin(start_url) /\ n.frag = ""

(* C4 as amended: when allowed_external is false every URL recorded in a
   page's out_links, and every URL enqueued, has the network location (host
   and port) of the start URL, whatever its scheme, and has no fragment unless
   it is the start URL itself, given with a fragment. *)
C4_OutLinksSameNetloc ==
    ~allowed_external =>
        \A n \in OutLinks \cup Urls(enqlog) :
            /\ n.netloc = start_url.netloc
            /\ n.frag # "" => n = start_url

\* the start page of SiteSchemes was parsed: its https and ftp links to the
\* host were recorded, its link to another port and its mailto link dropped
C4_Witness ==
    /\ ~allowed_external
    /\ site = SiteSchemes
    /\ start_url \in Keys
    /\ ~IsSkipped(results[start_url])
    /\ results[start_url].out_links =
          <<URL("https", "x.test", "/a", ""), URL("ftp", "x.test", "/b", "")>>

\* the robots policy, when there is one, disallows the URL
Denied(u) == rp # None /\ ~rp_can_fetch_raises(rp, u) /\ ~rp_can_fetch(rp, u)

C5_State ==
    \A i \in 1..Len(deqlog) :
        (~TooDeep(deqlog[i].depth) /\ Denied(deqlog[i].url)) =>
            /\ deqlog[i].url \in Keys
            /\ results[deqlog[i].url] = SkippedRecord
            /\ <<"GET", deqlog[i].url>> \notin Range(Fetched)

C5_Step ==
    (pc = "loop" /\ LoopGuard /\ ~TooDeep(Head(q).depth) /\ Denied(Head(q).url)) =>
        /\ q' = Tail(q)
        /\ visited' = visited
        /\ enqlog' = enqlog
        /\ netlog' = netlog
        /\ pc' = "loop"

(* C5: for every dequeued URL the robots gate denies, the run stores the
   record {skipped: blocked_by_robots}, never fetches the URL, enqueues
   nothing from it and goes on with the next frontier entry. *)
C5_RobotsDenialSkips == []C5_State /\ [][C5_Step]_vars

\* a denied URL was recorded as skipped and a later entry was fetched
C5_Witness ==
    \E i, j \in 1..Len(deqlog) :
        /\ i < j
        /\ Denied(deqlog[i].url)
        /\ deqlog[i].url \in Keys /\ IsSkipped(results[deqlog[i].url])
        /\ deqlog[j].url \in Keys /\ ~IsSkipped(results[deqlog[j].url])

C6_State ==
    \A k \in Keys :
        IsFailed(results[k]) =>
            /\ "error" \in DOMAIN results[k]
            /\ results[k].error = FetchError
            /\ results[k].out_links = <<>>
            /\ results[k].forms = <<>>

\* a step that fetched and got the failure value back
C6_Step ==
    (netlog' # netlog /\ pc = "loop" /\ cur'.status = 0) =>
        /\ cur'.html_or_err = FetchError /\ cur'.headers = NoHeaders
        /\ q' = Tail(q)
        /\ visited' = visited
        /\ enqlog' = enqlog
        /\ DOMAIN results' = Keys \cup {cur'.url}
        /\ IsFailed(results'[cur'.url])
        /\ pc' = "sleep"

(* C6: a fetch that fails at the transport level is returned as a value; the
   record stored for the URL has status 0, the error, no out_links and no
   forms; the iteration leaves the frontier (the dequeue apart) and the
   visited set unchanged, and the loop goes on. *)
C6_FetchFailureRecorded == []C6_State /\ [][C6_Step]_vars

\* a fetch failed and a later frontier entry was processed
C6_Witness ==
    \E i, j \in 1..Len(deqlog) :
        /\ i < j
        /\ deqlog[i].url \in Keys /\ IsFailed(results[deqlog[i].url])
        /\ deqlog[j].url \in Keys

----------------------------------------------------------------------------
(* Reachability in the link graph of the site *)

\* every record is a parsed status-200 page: robots permitted every URL and
\* every fetch returned status 200 with HTML
AllParsed ==
    \A k \in Keys :
        ~IsSkipped(results[k]) /\ results[k].status = 200
                               /\ "error" \notin DOMAIN results[k]

\* the URLs the non-empty hrefs of the page at u resolve to
Targets(u) ==
    {normalize_url(u, h) :
        h \in {x \in Range(Page(site, u).links) :
                  ~IsEmptyString(x) /\ ~normalize_url_raises(u, x)}}

\* the crawler's scope: not mailto:/javascript:, and on the host and port of
\* the start URL unless external crawling is allowed
InCrawlScope(n) ==
    /\ n.scheme \notin {"mailto", "javascript"}
    /\ allowed_external \/ n.netloc = start_url.netloc

RECURSIVE ReachWithin(_, _)
ReachWithin(S, d) ==
    IF d <= 0 THEN S
    ELSE ReachWithin(S \cup {n \in UNION {Targets(u) : u \in S} : InCrawlScope(n)}, d - 1)

\* the scope of section 4.1 of the specification: http or https, and of the
\* origin of the start URL unless external crawling is allowed
InOriginScope(n) ==
    /\ n.scheme \in {"http", "https"}
    /\ allowed_external \/ Origin(n) = Origin(start_input)

RECURSIVE OriginReachWithin(_, _)
OriginReachWithin(S, d) ==
    IF d <= 0 THEN S
    ELSE OriginReachWithin(
            S \cup {n \in UNION {Targets(u) : u \in S} : InOriginScope(n)}, d - 1)

(* C7 as claimed: when max_pages never binds, robots permits every URL and
   every fetch returns status 200 HTML, the keys of the result store at
   termination are exactly the start URL together with every in-scope
   (same-origin, http/https) URL reachable from it by at most max_depth
   links. *)
C7_KeysAreStartAndOriginReachable ==
    LET expected == OriginReachWithin({start_input}, max_depth) IN
    (pc = "done" /\ max_depth >= 0 /\ AllParsed /\ max_pages >= Cardinality(expected))
        => Keys = expected

(* C7 as amended: under the same conditions the keys at termination are
   exactly the start URL with its trailing slashes stripped together with
   every URL reachable from it by at most max_depth links that are not
   mailto:/javascript: and, unless external crawling is allowed, are on the
   host and port of the start URL. *)
C7_KeysAreStrippedStartAndReachable ==
    LET expected == ReachWithin({start_url}, max_depth) IN
    (pc = "done" /\ max_depth >= 0 /\ AllParsed /\ max_pages >= Cardinality(expected))
        => Keys = expected

\* the scenario of the specification, run to the end
C7_Witness ==
    /\ pc = "done"
    /\ AllParsed
    /\ site = SiteScenario
    /\ start_input = URL("http", "x.test", "/", "")
    /\ max_depth = 1
    /\ ~allowed_external
    /\ Keys = {URL("http", "x.test", "", ""), URL("http", "x.test", "/a", "")}
    /\ results[URL("http", "x.test", "", "")].out_links = <<URL("http", "x.test", "/a", "")>>

IsPrefix(s, t) == Len(s) <= Len(t) /\ \A i \in 1..Len(s) : s[i] = t[i]

(* C8: frontier entries are dequeued in exactly the order they were
   enqueued (the dequeued entries are the earliest enqueued ones and the
   frontier holds the rest in order), so the depths of successively
   dequeued and recorded pages never decrease. *)
C8_FifoOrder ==
    /\ IsPrefix(deqlog, enqlog)
    /\ q = SubSeq(enqlog, Len(deqlog) + 1, Len(enqlog))
    /\ \A i, j \in 1..Len(deqlog) : i < j => deqlog[i].depth <= deqlog[j].depth

\* max_pages cut the traversal short after pages of two depths were recorded
C8_Witness ==
    /\ pc = "done"
    /\ q # <<>>
    /\ Len(deqlog) = max_pages
    /\ Len(deqlog) >= 3
    /\ deqlog[1].depth < deqlog[2].depth
    /\ Urls(deqlog) = Keys

(* C9: every run terminates after at most max_pages iterations of the
   loop, and when the loop has stopped either the frontier is empty or the
   result store holds max_pages records. *)
C9_StopsAtEmptyFrontierOrMaxPages ==
    /\ Len(deqlog) <= max_pages
    /\ pc \in {"done", "raised"} => (q = <<>> \/ Cardinality(Keys) = max_pages)

(* C10: between any two consecutive network requests of a run, the request
   for robots.txt and the first page fetch included, a full delay step
   occurs. *)
C10_DelayBetweenRequests ==
    \A i \in 1..(Len(netlog) - 1) :
        ~(netlog[i][1] = "GET" /\ netlog[i + 1][1] = "GET")

(* C11: with max_pages = 1 the result store never holds a record for any
   URL but the start URL, and when crawl returns (max_depth >= 0) it holds
   exactly one record, keyed by the start URL as the Crawler keeps it,
   whatever the start page links to and whether it was fetched, failed or
   was blocked by robots. *)
C11_MaxPagesOneRecordsOnlyStart ==
    max_pages = 1 =>
        /\ Keys \subseteq {start_url}
        /\ (pc = "done" /\ max_depth >= 0) => Keys = {start_url}

\* the start page was parsed, has three links or more and one was enqueued
C11_Witness ==
    /\ pc = "done"
    /\ max_pages = 1
    /\ Keys = {start_url}
    /\ ~IsSkipped(results[start_url])
    /\ results[start_url].status = 200
    /\ Len(results[start_url].out_links) >= 3
    /\ q # <<>>

(* C12: no URL whose scheme is other than http or https is ever recorded
   in a page's out_links, enqueued in the frontier or handed to fetch. *)
C12_OnlyHttpSchemes ==
    \A u \in OutLinks \cup Urls(enqlog) \cup {r[2] : r \in Range(FetchedUrls)} :
        u.scheme \in {"http", "https"}

(* C13: when the request for robots.txt failed (no answer, or an HTTP
   error status), and when a later policy query itself fails, the gate
   answers true: no URL is recorded as blocked_by_robots unless a policy
   that was read denies it. *)
C13_UnavailablePolicyFailsOpen ==
    \A k \in Keys :
        IsSkipped(results[k]) =>
            /\ robots_reply.kind = "ok"
            /\ ~rp_can_fetch_raises(rp, k)

(* C14: no per-URL failure aborts the crawl: no exception leaves the loop,
   and every dequeued URL within max_depth has its record stored, a page
   whose link or form extraction failed included. *)
C14_NoFailureAbortsCrawl ==
    /\ pc # "raised"
    /\ \A i \in 1..Len(deqlog) :
           ~TooDeep(deqlog[i].depth) => deqlog[i].url \in Keys

(* C15: a stored page record carries an error value exactly when its
   fetch failed at the transport level (status 0); a record of a URL whose
   fetch returned an HTTP response has a status and no error. *)
C15_ErrorIffTransportFailure ==
    \A k \in Keys :
        ~IsSkipped(results[k]) =>
            ("error" \in DOMAIN results[k] <=> results[k].status = 0)

(* C16: the robots policy is per origin: robots.txt is requested at most
   once per origin, and every dequeued http/https URL within max_depth is
   gated after the robots.txt of its own origin was requested, a URL on
   another origin than the start URL's included. *)
C16_PolicyOfOwnOrigin ==
    /\ \A i, j \in 1..Len(netlog) :
           (netlog[i] = netlog[j] /\ netlog[i][1] = "GET"
               /\ netlog[i][2] = robots_url(netlog[i][2])) => i = j
    /\ \A i \in 1..Len(deqlog) :
           (~TooDeep(deqlog[i].depth) /\ deqlog[i].url.scheme \in {"http", "https"})
               => <<"GET", robots_url(deqlog[i].url)>> \in Range(netlog)

C17_State ==
    \A k \in Keys :
        (~IsSkipped(results[k]) /\ results[k].status # 200) =>
            /\ results[k].out_links = <<>>
            /\ results[k].forms = <<>>
            /\ {"status", "headers"} \subseteq DOMAIN results[k]

\* a step that fetched and got a status other than 200 back
C17_Step ==
    (netlog' # netlog /\ pc = "loop" /\ cur'.status # 200) =>
        /\ q' = Tail(q)
        /\ visited' = visited
        /\ enqlog' = enqlog
        /\ DOMAIN results' = Keys \cup {cur'.url}
        /\ results'[cur'.url].status = cur'.status
        /\ results'[cur'.url].headers = cur'.headers
        /\ results'[cur'.url].depth = Head(q).depth
        /\ pc' = "sleep"

(* C17: a dequeued page whose response status is not 200 is recorded with
   its status and headers and with empty out_links and forms, and that
   iteration adds nothing to the frontier or to the visited set. *)
C17_Non200NotParsed == []C17_State /\ [][C17_Step]_vars

\* a 404 page whose body holds links was recorded and the run went on
C17_Witness ==
    \E i, j \in 1..Len(deqlog) :
        /\ i < j
        /\ deqlog[i].url \in Keys /\ ~IsSkipped(results[deqlog[i].url])
        /\ results[deqlog[i].url].status = 404
        /\ results[deqlog[i].url].headers # NoHeaders
        /\ Page(site, deqlog[i].url).links # <<>>
        /\ deqlog[j].url \in Keys

(* C18: a record is inserted into the result store once, by the iteration
   that dequeues its URL, and no later step of the run changes, replaces or
   removes it. *)
C18_RecordsInsertedOnceNeverChanged ==
    [][ /\ \A k \in Keys : k \in DOMAIN results' /\ results'[k] = results[k]
        /\ results' # results =>
              /\ q # <<>> /\ deqlog' = Append(deqlog, Head(q))
              /\ Head(q).url \notin Keys
              /\ DOMAIN results' = Keys \cup {Head(q).url} ]_vars

\* a run that returned three records, one of a page that links back to a
\* URL recorded before it
C18_Witness ==
    /\ pc = "done"
    /\ Cardinality(Keys) >= 3
    /\ \E i, j \in 1..Len(deqlog) :
           /\ i < j
           /\ {deqlog[i].url, deqlog[j].url} \subseteq Keys
           /\ ~IsSkipped(results[deqlog[j].url])
           /\ deqlog[i].url \in Range(results[deqlog[j].url].out_links)

(* C19: at the start of every loop iteration (and in every other state of
   the run) |results| + |frontier| <= max_pages + 1, so when the run stops
   with max_pages records stored at most one enqueued, visited URL is left
   in the frontier without a record. *)
C19_FrontierOvershootAtMostOne ==
    /\ Cardinality(Keys) + Len(q) <= max_pages + 1
    /\ (pc = "done" /\ Cardinality(Keys) = max_pages) =>
           /\ Len(q) <= 1
           /\ Urls(q) \subseteq visited \ Keys

\* the run stopped at max_pages records with one entry left in the frontier
C19_Witness ==
    /\ pc = "done"
    /\ Cardinality(Keys) = max_pages
    /\ max_pages >= 3
    /\ Len(q) = 1
    /\ Urls(q) \subseteq visited \ Keys

\* a call of crawl() after the first has seeded its frontier and has not
\* run an iteration yet
SecondCallSeeded == calls >= 2 /\ pc = "loop" /\ cur = NoLocals

(* C20 as claimed: every call of crawl starts from a clean frontier, visited
   set and result store: when a second call on the same Crawler begins, the
   frontier and the visited set hold the start URL only and the result
   store is empty, as in the first call. *)
C20_SecondCallStartsClean ==
    SecondCallSeeded =>
        /\ q = <<Entry(start_url, 0)>>
        /\ visited = {start_url}
        /\ results = <<>>

(* C20 as amended: every call of crawl starts from a clean frontier only;
   the visited set and the result store belong to the Crawler and a second
   call begins with every URL visited and every record stored by the
   earlier call. *)
C20_SecondCallKeepsVisitedAndResults ==
    /\ [](SecondCallSeeded => q = <<Entry(start_url, 0)>>)
    /\ [][(pc = "done" /\ pc' = "loop") =>
            /\ q' = <<Entry(start_url, 0)>>
            /\ visited' = visited /\ Urls(enqlog) \subseteq visited'
            /\ results' = results]_vars

\* the second call begins with the three records and visited URLs of the first
C20_Witness ==
    /\ SecondCallSeeded
    /\ q = <<Entry(start_url, 0)>>
    /\ Cardinality(Keys) >= 3
    /\ Cardinality(visited) >= 3

====
